---- MODULE Spec2Model ----
(***************************************************************************)
(* Model of the ArucoSimple node of aruco_ros/src/grips_aruco.cpp: the     *)
(* calibration gate, the per-marker pose composition and frame lookup, the *)
(* fan-out of one composed pose into the published records, and the        *)
(* detection-mode reconfiguration.                                         *)
(*                                                                         *)
(* Callbacks are delivered by ros::spin() in main(), one at a time, so     *)
(* each callback is one action.                                            *)
(*                                                                         *)
(* Geometry.  Angles are counted in quarter turns (2 = pi), so rotations   *)
(* are the 24 rotation matrices with entries in {-1,0,1} and translations  *)
(* are integer vectors; products are exact.  The constant 3.1415f of the   *)
(* orientation correction is taken as pi.                                  *)
(***************************************************************************)
EXTENDS Integers, Sequences, FiniteSets, TLC

----------------------------------------------------------------------------
(* Bounds of the model. *)

\* largest image timestamp delivered
MaxStamp == 2
\* largest number of detections the detector reports for one frame
MaxMarkers == 2

----------------------------------------------------------------------------
(* tf::Vector3, tf::Matrix3x3, tf::Transform *)

Vec(x, y, z) == <<x, y, z>>

Dot(a, b) == a[1] * b[1] + a[2] * b[2] + a[3] * b[3]

Col(m, j) == <<m[1][j], m[2][j], m[3][j]>>

\* tf::Matrix3x3 operator*
MatRow(r, b) == <<Dot(r, Col(b, 1)), Dot(r, Col(b, 2)), Dot(r, Col(b, 3))>>
MatMul(a, b) == <<MatRow(a[1], b), MatRow(a[2], b), MatRow(a[3], b)>>

\* tf::Matrix3x3 * tf::Vector3
MatVec(m, v) == <<Dot(m[1], v), Dot(m[2], v), Dot(m[3], v)>>

VecAdd(a, b) == <<a[1] + b[1], a[2] + b[2], a[3] + b[3]>>

IdentityBasis == <<<<1, 0, 0>>, <<0, 1, 0>>, <<0, 0, 1>>>>

\* tf::Transform::setIdentity / tf::Transform::getIdentity
setIdentity == [basis |-> IdentityBasis, origin |-> Vec(0, 0, 0)]

\* tf::Transform operator*:  (a * b)(x) = a(b(x))
Mul(a, b) ==
    [basis |-> MatMul(a.basis, b.basis),
     origin |-> VecAdd(MatVec(a.basis, b.origin), a.origin)]

\* cosine and sine of q quarter turns
Cos4(q) == CASE q % 4 = 0 -> 1 [] q % 4 = 2 -> -1 [] OTHER -> 0
Sin4(q) == CASE q % 4 = 1 -> 1 [] q % 4 = 3 -> -1 [] OTHER -> 0

RotX(q) == <<<<1, 0, 0>>, <<0, Cos4(q), -Sin4(q)>>, <<0, Sin4(q), Cos4(q)>>>>
RotY(q) == <<<<Cos4(q), 0, Sin4(q)>>, <<0, 1, 0>>, <<-Sin4(q), 0, Cos4(q)>>>>
RotZ(q) == <<<<Cos4(q), -Sin4(q), 0>>, <<Sin4(q), Cos4(q), 0>>, <<0, 0, 1>>>>

\* the matrix RotZ(yaw) * RotY(pitch) * RotX(roll), from the cosines and sines
rpyBasis(cr, sr, cp, sp, cy, sy) ==
    <<<<cy * cp, cy * sp * sr - sy * cr, cy * sp * cr + sy * sr>>,
      <<sy * cp, sy * sp * sr + cy * cr, sy * sp * cr - cy * sr>>,
      <<-sp, cp * sr, cp * cr>>>>

\* tf::Quaternion::setRPY followed by tf::Transform::setRotation:
\* the basis of roll about X, then pitch about Y, then yaw about Z
setRPY(roll, pitch, yaw) ==
    rpyBasis(Cos4(roll), Sin4(roll), Cos4(pitch), Sin4(pitch), Cos4(yaw), Sin4(yaw))

\* atan2 in quarter turns, for arguments in {-1,0,1} with at most one non-zero
Atan2(y, x) ==
    CASE y > 0 -> 1
      [] y < 0 -> -1
      [] x < 0 -> 2
      [] OTHER -> 0

\* tf::Matrix3x3::getRPY(roll, pitch, yaw), first solution of getEulerYPR
getRPY(m) ==
    IF m[3][1] >= 1 \/ m[3][1] <= -1
    THEN [roll |-> Atan2(m[3][2], m[3][3]),
          pitch |-> IF m[3][1] < 0 THEN 1 ELSE -1,
          yaw |-> 0]
    ELSE [roll |-> Atan2(m[3][2], m[3][3]),
          pitch |-> 0,
          yaw |-> Atan2(m[2][1], m[1][1])]

\* tf::Matrix3x3::getRotation.  A quaternion component c is written as the
\* integer sign(c) * 4 * c^2, which is exact for the 24 rotations of the model
\* (c is one of 0, +-1/2, +-1/sqrt 2, +-1).
QComp(d, s) == IF d < 0 THEN -((d * d) \div s) ELSE (d * d) \div s

\* the branch of getRotation for a positive trace, s = trace + 1
quatOfTrace(m, s) ==
    [x |-> QComp(m[3][2] - m[2][3], s),
     y |-> QComp(m[1][3] - m[3][1], s),
     z |-> QComp(m[2][1] - m[1][2], s),
     w |-> s]

\* the other branch, from the largest diagonal entry m[i][i]; component n of
\* temp, with  s = m[i][i] - m[j][j] - m[k][k] + 1
quatTemp(m, i, j, k, s, n) ==
    CASE n = i -> s
      [] n = 4 -> QComp(m[k][j] - m[j][k], s)
      [] n = j -> QComp(m[j][i] + m[i][j], s)
      [] OTHER -> QComp(m[k][i] + m[i][k], s)

quatOfDiagonal(m, i, j, k) ==
    [x |-> quatTemp(m, i, j, k, m[i][i] - m[j][j] - m[k][k] + 1, 1),
     y |-> quatTemp(m, i, j, k, m[i][i] - m[j][j] - m[k][k] + 1, 2),
     z |-> quatTemp(m, i, j, k, m[i][i] - m[j][j] - m[k][k] + 1, 3),
     w |-> quatTemp(m, i, j, k, m[i][i] - m[j][j] - m[k][k] + 1, 4)]

\* index (1..3) of the diagonal entry getRotation starts from
largestDiagonal(m) ==
    IF m[1][1] < m[2][2]
    THEN (IF m[2][2] < m[3][3] THEN 3 ELSE 2)
    ELSE (IF m[1][1] < m[3][3] THEN 3 ELSE 1)

quatFrom(m, i) == quatOfDiagonal(m, i, (i % 3) + 1, ((i + 1) % 3) + 1)

getRotation(m) ==
    IF m[1][1] + m[2][2] + m[3][3] > 0
    THEN quatOfTrace(m, m[1][1] + m[2][2] + m[3][3] + 1)
    ELSE quatFrom(m, largestDiagonal(m))

----------------------------------------------------------------------------
(* tf to geometry_msgs conversions *)

\* tf::pointTFToMsg / tf::vector3TFToMsg
vector3TFToMsg(v) == [x |-> v[1], y |-> v[2], z |-> v[3]]

\* tf::poseTFToMsg
poseTFToMsg(t) ==
    [position |-> vector3TFToMsg(t.origin), orientation |-> getRotation(t.basis)]

\* tf::transformTFToMsg
transformTFToMsg(t) ==
    [translation |-> vector3TFToMsg(t.origin), rotation |-> getRotation(t.basis)]

\* tf::transformStampedTFToMsg
transformStampedTFToMsg(st) ==
    [header |-> [stamp |-> st.stamp_, frame_id |-> st.frame_id_],
     child_frame_id |-> st.child_frame_id_,
     transform |-> transformTFToMsg(st)]

----------------------------------------------------------------------------
(* Values delivered by the collaborators *)

\* aruco::DetectionMode
DM_NORMAL == 0
DM_FAST == 1
DM_VIDEO_FAST == 2
RecognizedModes == {DM_NORMAL, DM_FAST, DM_VIDEO_FAST}

\* the angle 3.1415f of the orientation correction, in quarter turns
Pi == 2
\* nh.param "marker_size" 0.05 m and the depth 0.001 m of the rviz cube, in mm
DefaultMarkerSize == 50
CubeDepth == 1

\* camera-relative poses the detector estimates
PoseFront == [basis |-> IdentityBasis, origin |-> Vec(0, 0, 1)]
\* a quarter turn about X and then one about Z: nothing about Y
PoseTurned == [basis |-> MatMul(RotZ(1), RotX(1)), origin |-> Vec(1, 2, 3)]
PoseTilted == [basis |-> RotY(1), origin |-> Vec(2, 0, 1)]

\* aruco::Marker as the detector fills it: id, pixel centroid, estimated pose
Detections ==
    {[id |-> 5, center |-> <<10, 20>>, pose |-> PoseFront],
     [id |-> 9, center |-> <<30, 40>>, pose |-> PoseTurned],
     [id |-> 9, center |-> <<10, 20>>, pose |-> PoseTilted]}

\* what one MarkerDetector::detect call can return: the detector sorts its
\* detections by id and keeps one detection per id
MarkerLists ==
    {l \in UNION {[1..n -> Detections] : n \in 0..MaxMarkers} :
        \A i, j \in DOMAIN l : i < j => l[i].id < l[j].id}

\* sensor_msgs::Image: capture time, whether cv_bridge can convert it to RGB8,
\* and what the detector finds in it
Images ==
    [stamp : 1..MaxStamp, decodable : {TRUE}, detections : MarkerLists]
        \cup [stamp : 1..MaxStamp, decodable : {FALSE}, detections : {<<>>}]

\* transforms the tf tree can hold for camera_frame in reference_frame
TreeTransforms == {[basis |-> RotZ(1), origin |-> Vec(1, 0, 0)]}

\* one use of the tf listener: whether waitForTransform succeeds within 0.5 s,
\* whether lookupTransform then throws, and the transform it yields otherwise
TfOutcomes ==
    [waited : {TRUE}, thrown : {FALSE}, transform : TreeTransforms]
        \cup [waited : {TRUE}, thrown : {TRUE}, transform : {setIdentity}]
        \cup [waited : {FALSE}, thrown : {FALSE}, transform : {setIdentity}]

Timeout(r) == ~r.waited
Thrown(r) == r.waited /\ r.thrown
Resolved(r) == r.waited /\ ~r.thrown

\* sensor_msgs::CameraInfo, by the calibration it converts to
CameraInfos == {[id |-> 1, valid |-> TRUE], [id |-> 2, valid |-> FALSE]}

\* aruco_ros::ArucoThresholdConfig; detection_mode is an int, 3 is no value of
\* aruco::DetectionMode
Configs == [detection_mode : 0..3, normalizeImage : BOOLEAN]

\* the configuration the reconfigure server starts with
DefaultConfigs == {c \in Configs : c.detection_mode \in RecognizedModes}

\* contents of a default-constructed tf::StampedTransform (not initialised)
UninitTransforms == {setIdentity, [basis |-> RotY(1), origin |-> Vec(7, 7, 7)]}

\* the frame parameters the constructor reads
RosParams ==
    {[tf_prefix |-> "", reference_frame |-> "", camera_frame |-> "cam", marker_frame |-> "marker"],
     [tf_prefix |-> "p/", reference_frame |-> "", camera_frame |-> "cam", marker_frame |-> "marker"],
     [tf_prefix |-> "p/", reference_frame |-> "map", camera_frame |-> "cam", marker_frame |-> "marker"]}

\* values of the detection_mode parameter
DetectionModeParams == {"DM_FAST", "DM_VIDEO_FAST", "DM_NORMAL", "DM_BOGUS"}

Log(level, text, args) == [level |-> level, text |-> text, args |-> args]

----------------------------------------------------------------------------
(* State of the node *)

VARIABLES
    rosparam,           \* frame parameters read by the constructor
    camParam,           \* aruco::CameraParameters
    rightToLeft,        \* stereo baseline
    cam_info_received,  \* calibration-ready flag
    cam_info_sub,       \* TRUE while the camera-info subscription is open
    mDetector,          \* detector configuration
    markers,            \* detections of the last detect call
    marker_size,
    marker_frame, camera_frame, reference_frame, tf_prefix,
    \* messages sent by the most recent callback, per publisher, in order
    br, pose_pub, transform_pub, position_pub, pixel_pub, marker_pub, image_pub,
    result_subscribers, \* number of subscribers of the annotated image
    rosout,             \* log lines of the most recent callback, in order
    call,               \* the most recent callback and what was delivered to it
    image_thread,       \* where the image callback stands, when it runs in steps
    cam_info_thread     \* where the camera-info callback stands, likewise

frames == <<marker_size, marker_frame, camera_frame, reference_frame, tf_prefix>>
calibration == <<camParam, rightToLeft, cam_info_received, cam_info_sub>>
publishers == <<br, pose_pub, transform_pub, position_pub, pixel_pub, marker_pub, image_pub>>
threads == <<image_thread, cam_info_thread>>
vars == <<rosparam, calibration, mDetector, markers, frames, publishers,
          result_subscribers, rosout, call, threads>>

\* no callback of this kind is running
Idle == [pc |-> "idle"]

\* nothing is sent on any publisher
NoPublication ==
    /\ br' = <<>> /\ pose_pub' = <<>> /\ transform_pub' = <<>>
    /\ position_pub' = <<>> /\ pixel_pub' = <<>> /\ marker_pub' = <<>>
    /\ image_pub' = <<>>

----------------------------------------------------------------------------
(* ArucoSimple::getTransform *)

\* getTransform writing into the caller's transform although the lookup failed
getTransformClobbering(refFrame, childFrame, transform, r) ==
    IF ~r.waited
    THEN [ok |-> FALSE, transform |-> [basis |-> RotZ(1), origin |-> Vec(0, 3, 0)],
          rosout |-> <<Log("ERROR", "Unable to get pose from TF", <<>>)>>]
    ELSE IF r.thrown
    THEN [ok |-> FALSE, transform |-> [basis |-> RotZ(1), origin |-> Vec(0, 3, 0)],
          rosout |-> <<Log("ERROR", "Error in lookupTransform", <<childFrame, refFrame>>)>>]
    ELSE [ok |-> TRUE, transform |-> r.transform, rosout |-> <<>>]

\* r is what the tf listener does for this call; transform is the caller's
\* object, left as it is unless lookupTransform fills it
getTransform(refFrame, childFrame, transform, r) ==
    IF ~r.waited
    THEN [ok |-> FALSE, transform |-> transform,
          rosout |-> <<Log("ERROR", "Unable to get pose from TF", <<>>)>>]
    ELSE IF r.thrown
    THEN [ok |-> FALSE, transform |-> transform,
          rosout |-> <<Log("ERROR", "Error in lookupTransform", <<childFrame, refFrame>>)>>]
    ELSE [ok |-> TRUE, transform |-> r.transform, rosout |-> <<>>]

----------------------------------------------------------------------------
(* ArucoSimple::image_callback, the body of the loop for markers[i] = m,    *)
(* with r the behaviour of the tf listener during this iteration            *)

\* aruco_ros::arucoMarker2Tf
arucoMarker2Tf(m) == m.pose

\* tf::Matrix3x3(quat).getRPY(pitch, yaw, roll): the locals, by their names
rpy(m) ==
    LET e == getRPY(arucoMarker2Tf(m).basis)
    IN [pitch |-> e.roll, yaw |-> e.pitch, roll |-> e.yaw]

\* the rotation built from the local named roll
new_quatFromRoll(m) == setRPY(Pi, rpy(m).roll, 0)

\* new_quat.setRPY(3.1415f, yaw, 0.0f)
new_quat(m) == setRPY(Pi, rpy(m).yaw, 0)

\* transform after transform.setRotation(new_quat)
corrected(m) == [basis |-> new_quat(m), origin |-> arucoMarker2Tf(m).origin]

\* whether the loop body calls getTransform
lookupNeeded == reference_frame # camera_frame

\* the lookup without its report of a failure
lookupQuiet(r) ==
    [ok |-> getTransform(reference_frame, camera_frame, setIdentity, r).ok,
     transform |-> getTransform(reference_frame, camera_frame, setIdentity, r).transform,
     rosout |-> <<>>]

\* the result of the getTransform call of the loop body
lookup(r) == getTransform(reference_frame, camera_frame, setIdentity, r)

cameraToReference(r) == IF lookupNeeded THEN lookup(r).transform ELSE setIdentity

\* the product with the marker's transform on the left
composedSwapped(m, r) == Mul(Mul(corrected(m), rightToLeft), cameraToReference(r))

\* transform = cameraToReference * rightToLeft * transform
composed(m, r) == Mul(Mul(cameraToReference(r), rightToLeft), corrected(m))

grips_marker_frame(m) == tf_prefix \o marker_frame \o "_" \o ToString(m.id)

\* tf::StampedTransform stampedTransform(transform, curr_stamp, reference_frame, grips_marker_frame)
stampedTransform(transform, curr_stamp, frame_id, child_frame_id) ==
    [basis |-> transform.basis, origin |-> transform.origin,
     stamp_ |-> curr_stamp, frame_id_ |-> frame_id,
     child_frame_id_ |-> child_frame_id]

\* the pose record stamped with the camera's frame
poseMsgInCameraFrame(transform, curr_stamp) ==
    [header |-> [stamp |-> curr_stamp, frame_id |-> camera_frame],
     pose |-> poseTFToMsg(transform)]

\* poseMsg, from the composed transform
poseMsg(transform, curr_stamp) ==
    [header |-> [stamp |-> curr_stamp, frame_id |-> reference_frame],
     pose |-> poseTFToMsg(transform)]

\* positionMsg with two components exchanged
positionMsgExchanged(tMsg) ==
    [header |-> tMsg.header,
     vector |-> [x |-> tMsg.transform.translation.y,
                 y |-> tMsg.transform.translation.x,
                 z |-> tMsg.transform.translation.z]]

\* positionMsg, from transformMsg
positionMsg(tMsg) ==
    [header |-> tMsg.header, vector |-> tMsg.transform.translation]

\* pixelMsg, from transformMsg and the marker's centre
pixelMsg(m, tMsg) ==
    [header |-> tMsg.header,
     point |-> [x |-> m.center[1], y |-> m.center[2], z |-> 0]]

\* visMarker, from transformMsg and poseMsg
visMarker(tMsg, pMsg) ==
    [header |-> tMsg.header,
     id |-> 1, type |-> "CUBE", action |-> "ADD",
     pose |-> pMsg.pose,
     scale |-> [x |-> marker_size, y |-> marker_size, z |-> CubeDepth],
     color |-> [r |-> 1, g |-> 0, b |-> 0, a |-> 1],
     lifetime |-> 3]

\* ROS_INFO_STREAM("Roll: " << roll << " Pitch: " << pitch << " Yaw: " << yaw)
rpyLog(e) == Log("INFO", "Roll/Pitch/Yaw", <<e.roll, e.pitch, e.yaw>>)

\* log lines of one iteration
iterationLog(m, r) ==
    <<rpyLog(rpy(m))>> \o (IF lookupNeeded THEN lookup(r).rosout ELSE <<>>)

\* what one iteration sends once transformMsg and poseMsg are built
publishAll(m, r, st, tMsg, pMsg) ==
    [br |-> st,
     pose_pub |-> pMsg,
     transform_pub |-> tMsg,
     position_pub |-> positionMsg(tMsg),
     pixel_pub |-> pixelMsg(m, tMsg),
     marker_pub |-> visMarker(tMsg, pMsg),
     rosout |-> iterationLog(m, r)]

\* the iteration from the stamped transform on
publishStamped(m, r, st, pMsg) ==
    publishAll(m, r, st, transformStampedTFToMsg(st), pMsg)

\* the iteration from the composed transform on
publishComposed(m, r, curr_stamp, transform) ==
    publishStamped(m, r,
        stampedTransform(transform, curr_stamp, reference_frame, grips_marker_frame(m)),
        poseMsg(transform, curr_stamp))

\* everything one iteration sends, by publisher
iteration(m, r, curr_stamp) == publishComposed(m, r, curr_stamp, composed(m, r))

----------------------------------------------------------------------------
(* ArucoSimple::image_callback *)

\* the tf listener is not used in this iteration
NoLookup == [waited : {FALSE}, thrown : {FALSE}, transform : {setIdentity}]

\* a conversion that never throws
toCvCopyNoThrow(msg) == TRUE

\* cv_bridge::toCvCopy(msg, RGB8): TRUE when it returns, FALSE when it throws
\* cv_bridge::Exception
toCvCopy(msg) == msg.decodable

\* a detect call appending to what the vector held
detectAppending(old, found) == old \o found

\* markers.clear(); mDetector.detect(inImage, markers, ...): the vector after
\* the two calls, when it held old and the detector finds found in the image
detect(old, found) == found

\* the behaviours of the tf listener over the iterations of one callback
TfRuns(msg) ==
    IF cam_info_received /\ toCvCopy(msg) /\ lookupNeeded
    THEN [1..Len(detect(markers, msg.detections)) -> TfOutcomes]
    ELSE [1..Len(detect(markers, msg.detections)) -> NoLookup]

\* the loop reading markers[0] in every iteration
RECURSIVE loopFirstMarker(_, _, _, _)
loopFirstMarker(ms, tfs, curr_stamp, i) ==
    IF i > Len(ms) THEN <<>>
    ELSE <<iteration(ms[1], tfs[i], curr_stamp)>>
            \o loopFirstMarker(ms, tfs, curr_stamp, i + 1)

\* the iterations of the loop over markers, from the i-th on
RECURSIVE loop(_, _, _, _)
loop(ms, tfs, curr_stamp, i) ==
    IF i > Len(ms) THEN <<>>
    ELSE <<iteration(ms[i], tfs[i], curr_stamp)>> \o loop(ms, tfs, curr_stamp, i + 1)

RECURSIVE Flatten(_)
Flatten(ss) == IF ss = <<>> THEN <<>> ELSE Head(ss) \o Flatten(Tail(ss))

\* cv_bridge::CvImage out_msg: the input image with the outlines drawn in the
\* loop and the axes drawn after it
out_msg(msg) ==
    [header |-> [stamp |-> msg.stamp], encoding |-> "RGB8",
     outlines |-> [i \in 1..Len(msg.detections) |-> msg.detections[i].id],
     axes |-> IF camParam.valid /\ marker_size # -1
              THEN [i \in 1..Len(msg.detections) |-> msg.detections[i].id]
              ELSE <<>>]

\* the messages of the iterations, per publisher and in the order sent
sendAll(sent) ==
    /\ br' = [i \in 1..Len(sent) |-> sent[i].br]
    /\ pose_pub' = [i \in 1..Len(sent) |-> sent[i].pose_pub]
    /\ transform_pub' = [i \in 1..Len(sent) |-> sent[i].transform_pub]
    /\ position_pub' = [i \in 1..Len(sent) |-> sent[i].position_pub]
    /\ pixel_pub' = [i \in 1..Len(sent) |-> sent[i].pixel_pub]
    /\ marker_pub' = [i \in 1..Len(sent) |-> sent[i].marker_pub]
    /\ rosout' = Flatten([i \in 1..Len(sent) |-> sent[i].rosout])

\* the callback without its test of cam_info_received
gateOpen == TRUE

\* if (cam_info_received)
gate == cam_info_received

image_callback(msg, tfs) ==
    /\ call' = [name |-> "image_callback", msg |-> msg, tfs |-> tfs,
                ready |-> cam_info_received]
    /\ IF ~gate
       THEN /\ NoPublication
            /\ rosout' = <<>>
            /\ UNCHANGED markers
       ELSE IF ~toCvCopy(msg)
       THEN /\ NoPublication
            /\ rosout' = <<Log("ERROR", "cv_bridge exception", <<>>)>>
            /\ UNCHANGED markers
       ELSE /\ markers' = detect(markers, msg.detections)
            /\ sendAll(loop(detect(markers, msg.detections), tfs, msg.stamp, 1))
            /\ image_pub' = IF result_subscribers > 0 THEN <<out_msg(msg)>> ELSE <<>>
    /\ UNCHANGED <<rosparam, calibration, mDetector, frames, result_subscribers, threads>>

----------------------------------------------------------------------------
(* ArucoSimple::cam_info_callback *)

\* aruco_ros::rosCameraInfo2ArucoCamParams
rosCameraInfo2ArucoCamParams(msg, useRectifiedImages) ==
    [valid |-> msg.valid, info |-> msg.id]

\* the subscription left open
shutdownMissing == TRUE

\* cam_info_sub.shutdown(): the subscription is closed
shutdown == FALSE

cam_info_callback(msg) ==
    /\ camParam' = rosCameraInfo2ArucoCamParams(msg, TRUE)
    /\ rightToLeft' = setIdentity
    /\ cam_info_received' = TRUE
    /\ cam_info_sub' = shutdown

\* a message on /camera_info: handled while the subscription is open, not
\* delivered to the node once it is closed
camera_info(msg) ==
    /\ call' = [name |-> "camera_info", msg |-> msg, handled |-> cam_info_sub]
    /\ IF cam_info_sub THEN cam_info_callback(msg) ELSE UNCHANGED calibration
    /\ NoPublication
    /\ rosout' = <<>>
    /\ UNCHANGED <<rosparam, mDetector, markers, frames, result_subscribers, threads>>

----------------------------------------------------------------------------
(* ArucoSimple::reconf_callback *)

\* mDetector.setDetectionMode(aruco::DetectionMode(config.detection_mode), ...)
setDetectionMode(mode) == [detectionMode |-> mode]

\* the callback without its warning
reconfLogSilent(config) == <<>>

reconfLog(config) ==
    IF config.normalizeImage
    THEN <<Log("WARN", "normalizeImageIllumination is unimplemented!", <<>>)>>
    ELSE <<>>

reconf_callback(config) ==
    /\ call' = [name |-> "reconf_callback", config |-> config]
    /\ mDetector' = setDetectionMode(config.detection_mode)
    /\ rosout' = reconfLog(config)
    /\ NoPublication
    /\ UNCHANGED <<rosparam, calibration, markers, frames, result_subscribers, threads>>

----------------------------------------------------------------------------
(* Subscribers of the "result" topic come and go; image_pub.getNumSubscribers *)
(* reads their number.                                                       *)

result_subscription(n) ==
    /\ n # result_subscribers
    /\ result_subscribers' = n
    /\ UNCHANGED <<rosparam, calibration, mDetector, markers, frames, publishers,
                   rosout, call, threads>>

----------------------------------------------------------------------------
(* ArucoSimple::ArucoSimple *)

\* the detection mode chosen from the detection_mode parameter
modeOfParam(detection_mode) ==
    IF detection_mode = "DM_FAST" THEN DM_FAST
    ELSE IF detection_mode = "DM_VIDEO_FAST" THEN DM_VIDEO_FAST
    ELSE DM_NORMAL

\* reference_frame after the prefix is applied and the default is taken
referenceFrameOf(p) ==
    IF p.tf_prefix \o p.reference_frame = ""
    THEN p.tf_prefix \o p.camera_frame
    ELSE p.tf_prefix \o p.reference_frame

\* ROS_ASSERT(camera_frame != "" && marker_frame != "")
framesAsserted(p) == p.tf_prefix \o p.camera_frame # "" /\ p.marker_frame # ""

constructorLog(corner_refinement, detection_mode) ==
    (IF corner_refinement
     THEN <<Log("WARN", "corner_refinement ROS parameter is deprecated", <<>>)>>
     ELSE <<>>)
    \o <<Log("INFO", "Detection mode", <<detection_mode>>)>>

\* the state when the constructor returns; it ends with the first call of
\* reconf_callback, made by dyn_rec_server.setCallback with the server's
\* current configuration
Init ==
    \E p \in RosParams, detection_mode \in DetectionModeParams,
       corner_refinement \in BOOLEAN, config \in DefaultConfigs,
       garbage \in UninitTransforms :
        /\ framesAsserted(p)
        /\ rosparam = p
        /\ cam_info_received = FALSE
        /\ camParam = [valid |-> FALSE, info |-> 0]
        /\ rightToLeft = garbage
        /\ cam_info_sub = TRUE
        /\ markers = <<>>
        /\ marker_size = DefaultMarkerSize
        /\ tf_prefix = p.tf_prefix
        /\ marker_frame = p.marker_frame
        /\ camera_frame = p.tf_prefix \o p.camera_frame
        /\ reference_frame = referenceFrameOf(p)
        /\ mDetector = setDetectionMode(config.detection_mode)
        /\ rosout = constructorLog(corner_refinement, detection_mode) \o reconfLog(config)
        /\ call = [name |-> "ArucoSimple", config |-> config,
                   detection_mode |-> detection_mode,
                   detectionMode |-> modeOfParam(detection_mode)]
        /\ br = <<>> /\ pose_pub = <<>> /\ transform_pub = <<>>
        /\ position_pub = <<>> /\ pixel_pub = <<>> /\ marker_pub = <<>>
        /\ image_pub = <<>>
        /\ result_subscribers = 0
        /\ image_thread = Idle
        /\ cam_info_thread = Idle

Next ==
    \/ \E msg \in Images : \E tfs \in TfRuns(msg) : image_callback(msg, tfs)
    \/ \E n \in 0..1 : result_subscription(n)
    \/ \E msg \in CameraInfos : camera_info(msg)
    \/ \E config \in Configs : reconf_callback(config)

Spec == Init /\ [][Next]_vars

----------------------------------------------------------------------------
(* The image callback in steps: its prologue, each polling sleep of          *)
(* waitForTransform, each iteration of the loop from the end of its wait on, *)
(* and its epilogue. ros::spin() runs one callback at a time, so the other   *)
(* callbacks run between two image callbacks.                                *)

\* ros::Duration(0.5) and ros::Duration(0.01) of the waitForTransform call, in
\* milliseconds
WaitTimeout == 500
PollingSleep == 10

\* a wait that starts over when its time is up
sleptRestarting(waited) ==
    IF waited + PollingSleep >= WaitTimeout THEN 0 ELSE waited + PollingSleep

\* the time waitForTransform has waited after one more polling sleep
slept(waited) == waited + PollingSleep

\* waitForTransform gives up
expired(waited) == waited >= WaitTimeout

\* the stores of cam_info_callback
Stores == {"camParam", "rightToLeft", "cam_info_received"}

\* store f of cam_info_callback has not been made
Unset(f) ==
    IF cam_info_thread.pc = "idle" THEN cam_info_sub ELSE f \in cam_info_thread.pending

\* f, when the callback reads it before it was stored
ReadUnset(f) == IF Unset(f) THEN {f} ELSE {}

\* lines 184-196: the gate, the conversion and the detect call, which reads
\* camParam
ImageBegin(msg) ==
    /\ image_thread = Idle
    /\ call' = [name |-> "image_callback", msg |-> msg, tfs |-> <<>>,
                ready |-> cam_info_received]
    /\ NoPublication
    /\ IF ~gate
       THEN /\ rosout' = <<>>
            /\ UNCHANGED <<markers, image_thread>>
       ELSE IF ~toCvCopy(msg)
       THEN /\ rosout' = <<Log("ERROR", "cv_bridge exception", <<>>)>>
            /\ UNCHANGED <<markers, image_thread>>
       ELSE /\ rosout' = <<>>
            /\ markers' = detect(markers, msg.detections)
            /\ image_thread' = [pc |-> "loop", i |-> 1, waited |-> 0,
                                unset |-> ReadUnset("camParam")]
    /\ UNCHANGED <<rosparam, calibration, mDetector, frames, result_subscribers,
                   cam_info_thread>>

\* waitForTransform finds no transform yet and sleeps
ImageMiss ==
    /\ image_thread.pc = "loop" /\ image_thread.i <= Len(markers)
    /\ lookupNeeded /\ ~expired(image_thread.waited)
    /\ image_thread' = [image_thread EXCEPT !.waited = slept(@)]
    /\ UNCHANGED <<rosparam, calibration, mDetector, markers, frames, publishers,
                   result_subscribers, rosout, call, cam_info_thread>>

\* the behaviours of the tf listener that end the wait of this iteration now:
\* the transform is there, or the time is up
TfNow ==
    IF image_thread.pc # "loop" THEN {}
    ELSE IF ~lookupNeeded THEN NoLookup
    ELSE IF expired(image_thread.waited) THEN {r \in TfOutcomes : ~r.waited}
    ELSE {r \in TfOutcomes : r.waited}

\* the messages of one iteration, after those sent before it
sendOne(sent) ==
    /\ br' = Append(br, sent.br)
    /\ pose_pub' = Append(pose_pub, sent.pose_pub)
    /\ transform_pub' = Append(transform_pub, sent.transform_pub)
    /\ position_pub' = Append(position_pub, sent.position_pub)
    /\ pixel_pub' = Append(pixel_pub, sent.pixel_pub)
    /\ marker_pub' = Append(marker_pub, sent.marker_pub)
    /\ rosout' = rosout \o sent.rosout

\* lines 198-271 for markers[i], from the return of waitForTransform on; the
\* product reads rightToLeft
ImageIterate(r) ==
    /\ image_thread.pc = "loop" /\ image_thread.i <= Len(markers)
    /\ sendOne(iteration(markers[image_thread.i], r, call.msg.stamp))
    /\ call' = [call EXCEPT !.tfs = Append(@, r)]
    /\ image_thread' = [image_thread EXCEPT !.i = @ + 1, !.waited = 0,
                                            !.unset = @ \cup ReadUnset("rightToLeft")]
    /\ UNCHANGED <<rosparam, calibration, mDetector, markers, frames, image_pub,
                   result_subscribers, cam_info_thread>>

\* lines 273-290: the annotated image, and the callback returns
ImageEnd ==
    /\ image_thread.pc = "loop" /\ image_thread.i > Len(markers)
    /\ image_pub' = IF result_subscribers > 0 THEN <<out_msg(call.msg)>> ELSE <<>>
    /\ image_thread' = Idle
    /\ UNCHANGED <<rosparam, calibration, mDetector, markers, frames, br, pose_pub,
                   transform_pub, position_pub, pixel_pub, marker_pub,
                   result_subscribers, rosout, call, cam_info_thread>>

\* the node started with the detection_mode parameter and the reconfigure
\* server at their defaults: neither is read by the steps below
InitDefault ==
    /\ Init
    /\ call.detection_mode = "DM_NORMAL"
    /\ call.config = [detection_mode |-> DM_NORMAL, normalizeImage |-> FALSE]
    /\ rosout = constructorLog(FALSE, "DM_NORMAL")

\* a step of the image callback while it runs, told by its position alone: in
\* NextSteps the steps that move image_thread while it is in the loop are those
\* of ImageMiss, ImageIterate and ImageEnd, and one of them is enabled at every
\* position in the loop
ImageStep ==
    /\ image_thread.pc = "loop"
    /\ image_thread' \in
          {[image_thread EXCEPT !.waited = slept(@)],
           [image_thread EXCEPT !.i = @ + 1, !.waited = 0,
                                !.unset = @ \cup ReadUnset("rightToLeft")],
           Idle}

NextSteps ==
    \/ \E msg \in Images : ImageBegin(msg)
    \/ ImageMiss
    \/ \E r \in TfNow : ImageIterate(r)
    \/ ImageEnd
    \/ image_thread = Idle /\ \E msg \in CameraInfos : camera_info(msg)
    \/ image_thread = Idle /\ \E config \in Configs : reconf_callback(config)
    \/ \E n \in 0..1 : result_subscription(n)

\* the spinner's thread is scheduled: a callback that has started keeps taking
\* its steps. Nothing is assumed of the tf tree or of the arrival of messages.
SpecSteps == InitDefault /\ [][NextSteps]_vars /\ WF_image_thread(ImageStep)

----------------------------------------------------------------------------
(* cam_info_callback in steps, delivered on a thread of its own while the    *)
(* image callback runs on another. Its three stores are plain writes to      *)
(* members the image callback reads with no lock and no atomic: the accesses *)
(* race, and the other thread may see the stores in any order.               *)

\* the stores the image callback's thread may see next
visibleNext(pending) == pending

\* the callback is entered; a message that arrives while it runs waits in the
\* subscription's queue, and is dropped by the shutdown
CamInfoBegin(msg) ==
    /\ cam_info_sub /\ cam_info_thread = Idle
    /\ cam_info_thread' = [pc |-> "running", msg |-> msg, pending |-> Stores]
    /\ UNCHANGED <<rosparam, calibration, mDetector, markers, frames, publishers,
                   result_subscribers, rosout, call, image_thread>>

\* one of lines 303, 307 and 310 takes effect
CamInfoStore(f) ==
    /\ cam_info_thread.pc = "running" /\ f \in visibleNext(cam_info_thread.pending)
    /\ camParam' = IF f = "camParam"
                   THEN rosCameraInfo2ArucoCamParams(cam_info_thread.msg, TRUE)
                   ELSE camParam
    /\ rightToLeft' = IF f = "rightToLeft" THEN setIdentity ELSE rightToLeft
    /\ cam_info_received' = IF f = "cam_info_received" THEN TRUE ELSE cam_info_received
    /\ cam_info_thread' = [cam_info_thread EXCEPT !.pending = @ \ {f}]
    /\ UNCHANGED <<rosparam, cam_info_sub, mDetector, markers, frames, publishers,
                   result_subscribers, rosout, call, image_thread>>

\* line 311, and the callback returns
CamInfoEnd ==
    /\ cam_info_thread.pc = "running" /\ cam_info_thread.pending = {}
    /\ cam_info_sub' = shutdown
    /\ cam_info_thread' = Idle
    /\ UNCHANGED <<rosparam, camParam, rightToLeft, cam_info_received, mDetector,
                   markers, frames, publishers, result_subscribers, rosout, call,
                   image_thread>>

NextConcurrent ==
    \/ \E msg \in Images : ImageBegin(msg)
    \/ ImageMiss
    \/ \E r \in TfNow : ImageIterate(r)
    \/ ImageEnd
    \/ \E msg \in CameraInfos : CamInfoBegin(msg)
    \/ \E f \in Stores : CamInfoStore(f)
    \/ CamInfoEnd

SpecConcurrent == InitDefault /\ [][NextConcurrent]_vars

----------------------------------------------------------------------------
(* Properties *)

\* the most recent callback is an image callback
ImageCall == call.name = "image_callback"

\* ... that passed the gate and decoded its image: the frame was processed
Processed == ImageCall /\ call.ready /\ call.msg.decodable

\* the detections of that frame, and the behaviour of the tf listener for each
Dets == call.msg.detections
NDets == Len(call.msg.detections)

\* all five records and the broadcast were sent once per detection
FiveRecordsEach ==
    /\ Len(br) = NDets /\ Len(transform_pub) = NDets /\ Len(pose_pub) = NDets
    /\ Len(position_pub) = NDets /\ Len(pixel_pub) = NDets /\ Len(marker_pub) = NDets

NothingSent ==
    /\ br = <<>> /\ pose_pub = <<>> /\ transform_pub = <<>> /\ position_pub = <<>>
    /\ pixel_pub = <<>> /\ marker_pub = <<>> /\ image_pub = <<>>

\* the transform t is what the broadcast, the transform record and the pose
\* record of detection i carry
Carries(i, t) ==
    /\ br[i].basis = t.basis /\ br[i].origin = t.origin
    /\ transform_pub[i].transform = transformTFToMsg(t)
    /\ pose_pub[i].pose = poseTFToMsg(t)

\* number of lines of rosout with this level and text
LogCount(level, text) ==
    Cardinality({k \in DOMAIN rosout : rosout[k].level = level /\ rosout[k].text = text})

\* the reference-camera transform the resolver delivered for detection i, the
\* identity when it was not asked or failed
ResolvedR(i) ==
    IF reference_frame # camera_frame /\ Resolved(call.tfs[i])
    THEN call.tfs[i].transform
    ELSE setIdentity

(* C1: an image callback that runs while cam_info_received is false sends    *)
(* nothing on any publisher, whatever the detector would report.            *)
C1_GatedBeforeCalibration == (ImageCall /\ ~call.ready) => NothingSent

\* an uncalibrated node was given a frame with two markers and a subscriber
C1_Witness ==
    /\ ImageCall /\ ~call.ready /\ call.msg.decodable
    /\ Len(call.msg.detections) = 2 /\ result_subscribers > 0

(* C2: with reference_frame # camera_frame, a detection whose getTransform   *)
(* call fails (timeout or exception) is published as S o C, and all five     *)
(* records are sent for it.                                                  *)
C2_LookupFailureDegrades ==
    (Processed /\ reference_frame # camera_frame) =>
        /\ FiveRecordsEach
        /\ \A i \in 1..NDets :
              ~Resolved(call.tfs[i]) =>
                  /\ Carries(i, Mul(rightToLeft, corrected(Dets[i])))
                  /\ position_pub[i].vector = transform_pub[i].transform.translation
                  /\ marker_pub[i].pose = pose_pub[i].pose
                  /\ pixel_pub[i].point.x = Dets[i].center[1]
                  /\ pixel_pub[i].point.y = Dets[i].center[2]

\* a frame with one lookup timing out and one throwing
C2_Witness ==
    /\ Processed /\ reference_frame # camera_frame /\ NDets = 2
    /\ Timeout(call.tfs[1]) /\ Thrown(call.tfs[2])

\* the point a rigid transform maps x to
Image(t, x) == VecAdd(MatVec(t.basis, x), t.origin)

\* four points in general position: two rigid transforms that agree on them
\* are equal
Probes == {Vec(0, 0, 0), Vec(1, 0, 0), Vec(0, 1, 0), Vec(0, 0, 1)}

\* t maps every point as c, then b, then a
IsComposition(t, a, b, c) ==
    \A x \in Probes : Image(t, x) = Image(a, Image(b, Image(c, x)))

(* C3: the transform published for a marker is R o S o C in that order (the  *)
(* marker's corrected pose C applied first, then the stereo baseline S, then *)
(* the resolved R), and differs from R o C o S whenever S and C do not       *)
(* commute.                                                                  *)
C3_CompositionOrder ==
    Processed =>
        \A i \in 1..NDets :
            LET R == ResolvedR(i)
                S == rightToLeft
                C == corrected(Dets[i])
            IN /\ IsComposition(br[i], R, S, C)
               /\ transform_pub[i].transform = transformTFToMsg(br[i])
               /\ (\E x \in Probes : Image(S, Image(C, x)) # Image(C, Image(S, x)))
                      => ~IsComposition(br[i], R, C, S)

\* a marker published through a resolved R that does not commute with its C
C3_Witness ==
    /\ Processed /\ NDets >= 1
    /\ reference_frame # camera_frame /\ Resolved(call.tfs[1])
    /\ \E x \in Probes :
          Image(call.tfs[1].transform, Image(corrected(Dets[1]), x))
            # Image(corrected(Dets[1]), Image(call.tfs[1].transform, x))

(* C4: once the first camera-info message has been handled, camParam,        *)
(* rightToLeft and the ready flag never change again, and a later            *)
(* camera-info message changes no state of the node.                         *)
C4_CalibrationLatched ==
    [][cam_info_received =>
         /\ UNCHANGED <<camParam, rightToLeft, cam_info_received>>
         /\ (call'.name = "camera_info" =>
                UNCHANGED <<cam_info_sub, mDetector, markers, frames>>)]_vars

\* a second camera-info message, different from the first, was delivered
C4_Witness ==
    /\ call.name = "camera_info" /\ ~call.handled
    /\ cam_info_received /\ camParam.info # call.msg.id

(* C5: per marker, the translation record's vector, the transform record's   *)
(* translation and the pose record's position are identical, and the         *)
(* visualization primitive's pose is the pose record's pose.                 *)
C5_FanOutConsistent ==
    Processed =>
        /\ FiveRecordsEach
        /\ \A i \in 1..NDets :
              /\ position_pub[i].vector = transform_pub[i].transform.translation
              /\ pose_pub[i].pose.position = transform_pub[i].transform.translation
              /\ marker_pub[i].pose = pose_pub[i].pose

\* a published marker whose translation has three different components
C5_Witness ==
    /\ Processed /\ NDets = 2
    /\ position_pub[2].vector.x # position_pub[2].vector.y
    /\ position_pub[2].vector.y # position_pub[2].vector.z

(* C6: a processed frame with n markers of distinct ids yields exactly n     *)
(* sets of records; the set of marker k is named tf_prefix + marker_frame +  *)
(* "_" + k and carries that marker's centroid and the pose composed from     *)
(* that marker's pose, not those of another marker of the frame.             *)
C6_OneSetPerMarker ==
    Processed =>
        /\ FiveRecordsEach
        /\ \A i \in 1..NDets :
              /\ br[i].child_frame_id_
                   = rosparam.tf_prefix \o rosparam.marker_frame \o "_" \o ToString(Dets[i].id)
              /\ transform_pub[i].child_frame_id = br[i].child_frame_id_
              /\ pixel_pub[i].point = [x |-> Dets[i].center[1], y |-> Dets[i].center[2], z |-> 0]
              /\ Carries(i, Mul(ResolvedR(i), Mul(rightToLeft, corrected(Dets[i]))))
              /\ \A j \in 1..NDets :
                    j # i =>
                       /\ br[i].child_frame_id_ # br[j].child_frame_id_
                       /\ Dets[j].center # Dets[i].center =>
                            <<pixel_pub[i].point.x, pixel_pub[i].point.y>> # Dets[j].center
                       /\ Dets[j].pose.origin # Dets[i].pose.origin =>
                            pose_pub[i].pose # pose_pub[j].pose

\* markers 5 and 9 in one frame, with different centroids and poses
C6_Witness ==
    /\ Processed /\ NDets = 2
    /\ Dets[1].id = 5 /\ Dets[2].id = 9
    /\ Dets[1].center # Dets[2].center
    /\ br[1].child_frame_id_ = "p/marker_5" /\ br[2].child_frame_id_ = "p/marker_9"

(* C7: whenever the pose composition runs for a detection, the calibration   *)
(* is valid (camParam.isValid()).                                            *)
C7_ComposerNeedsValidCalibration ==
    (Processed /\ NDets >= 1) => camParam.valid

(* C8: an unrecognized detection mode, from a configuration change or from   *)
(* the detection_mode parameter, makes the detector fall back to a mode of   *)
(* the recognized set with a warning; the detector's mode is always in the   *)
(* recognized set.                                                           *)
C8_ModeValidated ==
    /\ mDetector.detectionMode \in RecognizedModes
    /\ (call.name = "reconf_callback" /\ call.config.detection_mode \notin RecognizedModes)
          => \E k \in DOMAIN rosout : rosout[k].level = "WARN" /\ rosout[k].text = "Detection mode"
    /\ (call.name = "ArucoSimple"
          /\ call.detection_mode \notin {"DM_FAST", "DM_VIDEO_FAST", "DM_NORMAL"})
          => /\ call.detectionMode \in RecognizedModes
             /\ \E k \in DOMAIN rosout : rosout[k].level = "WARN" /\ rosout[k].text = "Detection mode"

\* the detections of the frame whose lookup timed out
TimedOut == {i \in 1..NDets : Timeout(call.tfs[i])}

\* the published translation of every such marker is its camera-relative one
TranslationsUnmodified ==
    \A i \in TimedOut :
        /\ position_pub[i].vector = vector3TFToMsg(Dets[i].pose.origin)
        /\ transform_pub[i].transform.translation = vector3TFToMsg(Dets[i].pose.origin)
        /\ pose_pub[i].pose.position = vector3TFToMsg(Dets[i].pose.origin)

(* C9, as stated: in a processed frame with reference_frame # camera_frame   *)
(* in which the resolver times out, the published translation of each marker *)
(* is its camera-relative translation and exactly one lookup failure is      *)
(* logged for the frame, whatever the number of markers.                     *)
C9_OneFailurePerFrame ==
    (Processed /\ reference_frame # camera_frame /\ TimedOut # {}) =>
        /\ TranslationsUnmodified
        /\ LogCount("ERROR", "Unable to get pose from TF") = 1

(* C9, amended: ... and exactly one lookup failure is logged for each marker *)
(* whose lookup timed out (n failures when the lookups of n markers time     *)
(* out).                                                                     *)
C9_OneFailurePerMarker ==
    (Processed /\ reference_frame # camera_frame /\ TimedOut # {}) =>
        /\ FiveRecordsEach
        /\ TranslationsUnmodified
        /\ LogCount("ERROR", "Unable to get pose from TF") = Cardinality(TimedOut)

\* two markers, both lookups timed out
C9_Witness ==
    /\ Processed /\ reference_frame # camera_frame /\ NDets = 2
    /\ TimedOut = {1, 2}
    /\ Dets[2].pose.origin # Vec(0, 0, 0)

(* C10: whenever the reference_frame parameter is empty, reference_frame     *)
(* equals camera_frame, for every tf_prefix, and getTransform is never       *)
(* called.                                                                   *)
C10_ReferenceDefaultsToCamera ==
    rosparam.reference_frame = "" =>
        /\ reference_frame = camera_frame
        /\ Processed => \A i \in 1..NDets : call.tfs[i] \in NoLookup

\* the angles of the raw rotation of detection m about X, Y and Z; the claim
\* names them p, y and r
AboutX(m) == getRPY(m.pose.basis).roll
AboutY(m) == getRPY(m.pose.basis).pitch
AboutZ(m) == getRPY(m.pose.basis).yaw

\* the rotation built from (roll = pi, pitch = y, yaw = 0): the half turn about
\* X first, then y about Y
Rebuilt(y) == MatMul(RotZ(0), MatMul(RotY(y), RotX(Pi)))

(* C11: the rotation that enters the composition for a marker is the one     *)
(* built from (roll = pi, pitch = y, yaw = 0), y being the angle of the raw  *)
(* rotation about Y; two markers whose raw rotations agree on y are given    *)
(* the same rotation whatever their angles about X and Z, and the raw        *)
(* translation enters the composition unchanged.                             *)
C11_RotationRebuiltFromY ==
    Processed =>
        \A i \in 1..NDets :
            /\ IsComposition(br[i], ResolvedR(i), rightToLeft,
                             [basis |-> Rebuilt(AboutY(Dets[i])),
                              origin |-> Dets[i].pose.origin])
            /\ ResolvedR(i) = setIdentity =>
                  /\ br[i].basis = Rebuilt(AboutY(Dets[i]))
                  /\ br[i].origin = Dets[i].pose.origin
            /\ \A j \in 1..NDets :
                  (AboutY(Dets[j]) = AboutY(Dets[i]) /\ ResolvedR(j) = ResolvedR(i))
                      => br[j].basis = br[i].basis

\* two markers of one frame whose raw rotations agree about Y and differ about
\* X and about Z, published without a resolved R
C11_Witness ==
    /\ Processed /\ NDets = 2
    /\ AboutY(Dets[1]) = AboutY(Dets[2])
    /\ AboutX(Dets[1]) # AboutX(Dets[2])
    /\ AboutZ(Dets[1]) # AboutZ(Dets[2])
    /\ Dets[1].pose.basis # Dets[2].pose.basis
    /\ ResolvedR(1) = setIdentity /\ ResolvedR(2) = setIdentity
    /\ br[1].basis = br[2].basis /\ br[1].origin # br[2].origin

\* the most recent callback was given an image that did not decode, in a
\* calibrated node
DecodeFailed == ImageCall /\ call.ready /\ ~call.msg.decodable

(* C12: an image callback of a calibrated node whose image does not decode   *)
(* logs the cv_bridge failure and sends nothing on any publisher (no         *)
(* broadcast, no record, no annotated image), leaving the node's state as it *)
(* was; the image callback that follows it with an image that decodes is     *)
(* processed in full.                                                        *)
C12_DecodeFailureSkipsFrame ==
    [][/\ DecodeFailed' =>
             /\ NothingSent'
             /\ rosout' = <<Log("ERROR", "cv_bridge exception", <<>>)>>
             /\ UNCHANGED <<calibration, mDetector, markers, frames>>
       /\ (DecodeFailed /\ Processed') =>
             /\ FiveRecordsEach'
             /\ markers' = Dets'
             /\ Len(image_pub') = (IF result_subscribers' > 0 THEN 1 ELSE 0)
             /\ LogCount("ERROR", "cv_bridge exception")' = 0]_vars

\* an image failed to decode while the annotated image had a subscriber, in a
\* node that had processed a frame with a marker before
C12_Witness ==
    /\ DecodeFailed /\ result_subscribers > 0 /\ markers # <<>>
    /\ LogCount("ERROR", "cv_bridge exception") = 1

\* number of warnings about the unimplemented normalization in rosout
NormalizeWarnings == LogCount("WARN", "normalizeImageIllumination is unimplemented!")

(* C13: every reconf_callback whose configuration has normalizeImage set     *)
(* logs the warning that normalization is unimplemented, once per call and   *)
(* on every such call; one whose configuration has it clear logs no such     *)
(* warning; and the callback changes nothing but the detector's mode: no     *)
(* normalization is switched on anywhere.                                    *)
C13_NormalizeWarnsEveryTime ==
    [][call'.name = "reconf_callback" =>
          /\ NormalizeWarnings' = (IF call'.config.normalizeImage THEN 1 ELSE 0)
          /\ mDetector' = [detectionMode |-> call'.config.detection_mode]
          /\ UNCHANGED <<calibration, markers, frames, rosparam>>
          /\ NothingSent']_vars

\* a change with normalizeImage set, delivered to a node that has processed a
\* frame since it started
C13_Witness ==
    /\ call.name = "reconf_callback" /\ call.config.normalizeImage
    /\ cam_info_received /\ markers # <<>>
    /\ NormalizeWarnings = 1

\* the header every record of the processed frame is to carry
FrameHeader == [stamp |-> call.msg.stamp, frame_id |-> reference_frame]

(* C14: for every marker of a processed frame, the broadcast and the         *)
(* transform, pose, translation, pixel and visualization records carry the   *)
(* stamp of the image being processed and the frame reference_frame; the     *)
(* pixel record has z = 0 and the parent of the transform record is          *)
(* reference_frame.                                                          *)
C14_StampAndFrame ==
    Processed =>
        /\ reference_frame = referenceFrameOf(rosparam)
        /\ \A i \in 1..NDets :
              /\ br[i].stamp_ = call.msg.stamp
              /\ br[i].frame_id_ = reference_frame
              /\ transform_pub[i].header = FrameHeader
              /\ pose_pub[i].header = FrameHeader
              /\ position_pub[i].header = FrameHeader
              /\ pixel_pub[i].header = FrameHeader
              /\ marker_pub[i].header = FrameHeader
              /\ pixel_pub[i].point.z = 0

\* two markers of the image stamped MaxStamp, in a node whose reference frame
\* is not the camera's
C14_Witness ==
    /\ Processed /\ NDets = 2 /\ call.msg.stamp = MaxStamp
    /\ reference_frame # camera_frame
    /\ pose_pub[2].header.stamp = MaxStamp
    /\ pixel_pub[2].header.frame_id = "p/map"

\* the records sent for the i-th marker are those of detection d
DerivesFrom(i, d) ==
    /\ br[i].child_frame_id_ = tf_prefix \o marker_frame \o "_" \o ToString(d.id)
    /\ transform_pub[i].child_frame_id = br[i].child_frame_id_
    /\ pixel_pub[i].point.x = d.center[1] /\ pixel_pub[i].point.y = d.center[2]
    /\ Carries(i, Mul(ResolvedR(i), Mul(rightToLeft, corrected(d))))
    /\ position_pub[i].vector = transform_pub[i].transform.translation
    /\ marker_pub[i].pose = pose_pub[i].pose

(* C15: whatever the frames before it held, a processed frame publishes      *)
(* exactly one set of records per detection the detector produced for that   *)
(* frame, each derived from that detection, and the markers vector holds     *)
(* those detections only; a frame that is gated or fails to decode, and      *)
(* every other callback, publishes nothing, whatever the markers vector      *)
(* still holds.                                                              *)
C15_NoStaleDetections ==
    /\ Processed =>
          /\ markers = Dets
          /\ FiveRecordsEach
          /\ \A i \in 1..NDets : DerivesFrom(i, Dets[i])
          /\ \A k \in DOMAIN image_pub :
                /\ image_pub[k].header.stamp = call.msg.stamp
                /\ Len(image_pub[k].outlines) = NDets
    /\ ~Processed => NothingSent

\* a frame failed to decode while markers still held the two detections of an
\* earlier frame
C15_Witness ==
    /\ DecodeFailed /\ Len(markers) = 2 /\ NDets = 0
    /\ br = <<>> /\ pixel_pub = <<>>

\* the image callback is past its gate and its conversion and has not returned
InFlight == image_thread.pc = "loop"

Returned == image_thread = Idle /\ Processed /\ FiveRecordsEach

\* ... in which a lookup ran out of time
StalledReturned == Returned /\ TimedOut # {}

(* C17: every image callback that starts processing a frame returns, with    *)
(* the five records and the broadcast of each marker sent, even when every   *)
(* lookup runs out of time: getTransform waits once, for at most             *)
(* WaitTimeout, and does not retry. The frame delivered after a frame whose  *)
(* lookups ran out of time passes the gate and is processed.                 *)
C17_CallbackTerminates ==
    /\ InFlight ~> Returned
    /\ [][(StalledReturned /\ call'.name = "image_callback" /\ call'.tfs = <<>>
             /\ call'.msg.decodable)
            => (InFlight' /\ call'.ready /\ markers' = call'.msg.detections)]_vars

\* a frame with two markers has returned after both lookups ran out of time
C17_Witness ==
    /\ StalledReturned /\ NDets = 2 /\ TimedOut = {1, 2}
    /\ LogCount("ERROR", "Unable to get pose from TF") = 2

====
